---- MODULE Spec2Model ----
(***************************************************************************)
(* A model of the structured logger of package slog (src/log.go).          *)
(*                                                                         *)
(* src/log.go holds two designs of the Logger:                             *)
(*   rev = "fixed": call-site resolution by a fixed call depth             *)
(*                  (runtime.Caller(l.callDepth)), lines 1-203;             *)
(*   rev = "scan" : call-site resolution by scanning the stack for the     *)
(*                  first frame outside the package, with the panic and    *)
(*                  fatal levels, lines 385-663.                           *)
(*                                                                         *)
(* Strings the code takes apart are sequences of tokens: a function name   *)
(* is split at "." and "/", a file path is the sequence of its components. *)
(* A Go value is a record [kind, s]: its dynamic type and what fmt.Sprint  *)
(* prints for it. A JSON object is a function from member names to values. *)
(***************************************************************************)
EXTENDS Naturals, Integers, Sequences, FiniteSets, TLC

VARIABLES
    rev,         \* which design of the Logger the program is built from
    logger,      \* the two Logger objects: "default" (defaultLogger), "user";
                 \* permanentFields is the map the field refers to, which is
                 \* the map object the caller passed to New
    atNew,       \* the arguments each Logger's New was called with: out, the
                 \* contents permanentFields had at the call, and callDepth
                 \* (an argument of the fixed-depth design's New)
    mu,          \* log.Logger.mu of each Logger: the thread holding it, or 0
    buf,         \* log.Logger.buf of each Logger: the bytes of the line being written
    sink,        \* what each io.Writer received: the Write calls in order
    pc,          \* where each goroutine is
    call,        \* the logging call each goroutine is making (or made last)
    es,          \* log's local es (string(byt)) of each goroutine
    wrote,       \* the bytes each goroutine's current call passed to Write, in order
    panicValue,  \* the panic each goroutine's current call raised: [raised, value]
    ncalls,      \* the number of logging calls each goroutine has started
    exitStatus,  \* the process: Running, or Exited(status)
    clock        \* the wall clock time.Now() reads

vars == <<rev, logger, atNew, mu, buf, sink, pc, call, es, wrote, panicValue, ncalls,
          exitStatus, clock>>

(***************************************************************************)
(* Bounds of the model.                                                    *)
(***************************************************************************)
NThreads == 2
MaxCalls == 2

Threads == 1..NThreads
Loggers == {"default", "user"}

\* The io.Writers of the program: os.Stdout and a writer of the user's.
Stdout == "stdout"
Writers == {Stdout, "w"}
\* The nil io.Writer.
NilWriter == "nil"

(***************************************************************************)
(* Program constants.                                                      *)
(***************************************************************************)
DefaultCallDepth == 3
MinimumCallerDepth == 4
MaximumCallerDepth == 25
HugeCallDepth == 10000000
ExitCodeFatal == 1

(***************************************************************************)
(* Go values and fmt.Sprint.                                               *)
(***************************************************************************)
GoNil == [kind |-> "nil", s |-> "<nil>"]
GoString(s) == [kind |-> "string", s |-> s]
GoInt(s) == [kind |-> "int", s |-> s]
\* A nil pointer of some type T, (*T)(nil): as an interface{} it is not nil, and
\* fmt.Sprint prints it as "<nil>".
GoNilPtr == [kind |-> "ptr", s |-> "<nil>"]

Sprint(v) == v.s

EmptyFields == [k \in {} |-> GoNil]

Newline == "\n"

(***************************************************************************)
(* Small helpers on sequences of tokens.                                   *)
(***************************************************************************)
Min(a, b) == IF a <= b THEN a ELSE b

\* strings.LastIndex(f, sep) on a token sequence: the last position of sep, 0-based,
\* or -1.
LastIndex(f, sep) ==
    LET hits == {i \in 1..Len(f) : f[i] = sep}
    IN  IF hits = {} THEN -1
        ELSE (CHOOSE i \in hits : \A j \in hits : j <= i) - 1

\* strings.Contains(f, tok)
Contains(f, tok) == \E i \in 1..Len(f) : f[i] = tok

(***************************************************************************)
(* The API: the level methods of Logger and the package-level functions.   *)
(***************************************************************************)
MethodNames ==
    <<"Trace", "Tracef", "Info", "Infof", "Warn", "Warnf", "Error", "Errorf",
      "Panic", "Panicf", "Fatal", "Fatalf">>

MethodIndex(name) == CHOOSE i \in 1..Len(MethodNames) : MethodNames[i] = name

\* The methods each design has: the fixed-depth design stops at Errorf.
Methods(r) ==
    IF r = "fixed" THEN {MethodNames[i] : i \in 1..8}
    ELSE {MethodNames[i] : i \in 1..12}

\* Mutant of MethodLevel: Panic and Panicf pasted from Error and Errorf with the
\* level left as it was.
MethodLevelPanicAsError(name) ==
    CASE name \in {"Trace", "Tracef"} -> "trace"
      [] name \in {"Info", "Infof"}   -> "info"
      [] name \in {"Warn", "Warnf"}   -> "warn"
      [] name \in {"Error", "Errorf", "Panic", "Panicf"} -> "error"
      [] name \in {"Fatal", "Fatalf"} -> "fatal"

\* The level each Logger method passes to log.
MethodLevel(name) ==
    CASE name \in {"Trace", "Tracef"} -> "trace"
      [] name \in {"Info", "Infof"}   -> "info"
      [] name \in {"Warn", "Warnf"}   -> "warn"
      [] name \in {"Error", "Errorf"} -> "error"
      [] name \in {"Panic", "Panicf"} -> "panic"
      [] name \in {"Fatal", "Fatalf"} -> "fatal"

\* The <Level>f methods pass their Fields argument to log, the others pass nil.
TakesFields(name) ==
    name \in {"Tracef", "Infof", "Warnf", "Errorf", "Panicf", "Fatalf"}

MethodFields(name, f) == IF TakesFields(name) THEN f ELSE EmptyFields

\* Mutant of ExitsAfterLog: Fatalf written like the other <Level>f methods,
\* without the os.Exit.
ExitsAfterLogFatalOnly(name) == name = "Fatal"

\* Fatal and Fatalf call os.Exit(1) after log returns.
ExitsAfterLog(name) == name \in {"Fatal", "Fatalf"}

\* The Logger method each package-level function calls on defaultLogger.
FreeDelegate(name) ==
    CASE name = "Trace"  -> "Trace"  [] name = "Tracef" -> "Tracef"
      [] name = "Info"   -> "Info"   [] name = "Infof"  -> "Infof"
      [] name = "Warn"   -> "Warn"   [] name = "Warnf"  -> "Warnf"
      [] name = "Error"  -> "Error"  [] name = "Errorf" -> "Errorf"
      [] name = "Panic"  -> "Panic"  [] name = "Panicf" -> "Panicf"
      [] name = "Fatal"  -> "Fatal"  [] name = "Fatalf" -> "Fatalf"

\* A call is made on a Logger method ("method"), on a package-level function
\* ("free"), or on a Logger method from inside a function the user wrote around
\* the Logger ("wrapper").
Apis == {"method", "free", "wrapper"}

CallMethod(c) == IF c.api = "free" THEN FreeDelegate(c.name) ELSE c.name
CallLogger(c) == IF c.api = "free" THEN "default" ELSE "user"
\* The io.Writer of the Logger the call is made on (l.logger's out).
CallOut(c) == logger[CallLogger(c)].out
CallLevel(c) == MethodLevel(CallMethod(c))

(***************************************************************************)
(* Stack frames. A frame is [fn, file, line]: the function's full name,    *)
(* the path of its file, and the line the frame is at.                     *)
(***************************************************************************)
SlogPkg == <<"github", ".", "com", "/", "safe-waters", "/", "slog">>
SlogFile == <<"/", "go", "/", "src", "/", "slog", "/", "log.go">>
SlogTestFile == <<"/", "go", "/", "src", "/", "slog", "/", "log_test.go">>
MainFile == <<"/", "home", "/", "app", "/", "main.go">>
SvcFile == <<"/", "home", "/", "app", "/", "svc", "/", "server.go">>
RuntimeDir == <<"/", "usr", "/", "go", "/", "src", "/", "runtime", "/">>
TestingFile == <<"/", "usr", "/", "go", "/", "src", "/", "testing", "/", "testing.go">>

Frame(fn, file, line) == [fn |-> fn, file |-> file, line |-> line]

\* The line of each Logger method's call of log, per design.
MethodLine(r, name) ==
    IF r = "fixed"
    THEN <<121, 126, 131, 136, 141, 146, 151, 156>>[MethodIndex(name)]
    ELSE <<519, 524, 529, 534, 539, 544, 549, 554, 559, 564, 569, 575>>[MethodIndex(name)]

\* The line of each package-level function's call of the default Logger's method.
FreeLine(r, name) ==
    IF r = "fixed"
    THEN <<81, 86, 91, 96, 101, 106, 111, 116>>[MethodIndex(name)]
    ELSE <<459, 464, 469, 474, 479, 484, 489, 494, 499, 504, 509, 514>>[MethodIndex(name)]

MethodFrame(r, name) ==
    Frame(SlogPkg \o <<".", "(*Logger)", ".", name>>, SlogFile, MethodLine(r, name))

FreeFrame(r, name) == Frame(SlogPkg \o <<".", name>>, SlogFile, FreeLine(r, name))

\* log at its call of fileInfo / fileNameAndLineNumber.
LogFrame(r) ==
    Frame(SlogPkg \o <<".", "(*Logger)", ".", "log">>, SlogFile,
          IF r = "fixed" THEN 179 ELSE 605)

\* fileInfo at its call of runtime.Caller.
FileInfoFrame == Frame(SlogPkg \o <<".", "(*Logger)", ".", "fileInfo">>, SlogFile, 191)

\* fileNameAndLineNumber at its call of runtime.Callers.
ScanFrame ==
    Frame(SlogPkg \o <<".", "(*Logger)", ".", "fileNameAndLineNumber">>, SlogFile, 622)

RuntimeCallersFrame ==
    Frame(<<"runtime", ".", "Callers">>, RuntimeDir \o <<"extern.go">>, 325)

GoexitFrame ==
    Frame(<<"runtime", ".", "goexit">>, RuntimeDir \o <<"asm_amd64.s">>, 1594)

(***************************************************************************)
(* The code that calls the library: a call site is the frame of the call,  *)
(* with the frames below it on the goroutine's stack.                      *)
(*   "main": main.main of a program that imports the package;              *)
(*   "svc" : a method of another package of that program;                  *)
(*   "test": the package's own test, TestLog's subtest closure at          *)
(*           log_test.go:168 (the test file is in package slog);           *)
(*   "deep": a function of package slog that calls itself before it logs,  *)
(*           DeepFrames frames of it on the stack below the test runner.   *)
(***************************************************************************)
Sites == {"main", "svc", "test", "deep"}

\* The frames of package slog a "deep" call has above the test runner: one less
\* than the scan captures, so that the frame of a package-level function on top
\* of them fills what the scan captures.
DeepFrames == MaximumCallerDepth - 1

DeepFrame(line) == Frame(SlogPkg \o <<".", "logDeep">>, SlogTestFile, line)

SiteFrame(s) ==
    CASE s = "main" -> Frame(<<"main", ".", "main">>, MainFile, 6)
      [] s = "svc"  ->
            Frame(<<"example", ".", "com", "/", "app", "/", "svc", ".", "(*Server)", ".", "Run">>,
                  SvcFile, 42)
      [] s = "test" -> Frame(SlogPkg \o <<".", "TestLog", ".", "func1">>, SlogTestFile, 168)
      [] s = "deep" -> DeepFrame(460)

\* A function the site's package wrote around the Logger, at its call of the
\* Logger's method; for the test it is getLogFuncf's closure (log_test.go:445).
WrapperFrame(s) ==
    CASE s = "main" -> Frame(<<"main", ".", "logInfo">>, MainFile, 20)
      [] s = "svc"  ->
            Frame(<<"example", ".", "com", "/", "app", "/", "svc", ".", "logf">>, SvcFile, 77)
      [] s = "test" -> Frame(SlogPkg \o <<".", "getLogFuncf", ".", "func2">>, SlogTestFile, 445)
      [] s = "deep" -> Frame(SlogPkg \o <<".", "getLogFuncf", ".", "func2">>, SlogTestFile, 445)

OuterFrames(s) ==
    CASE s = "main" ->
            <<Frame(<<"runtime", ".", "main">>, RuntimeDir \o <<"proc.go">>, 250), GoexitFrame>>
      [] s = "svc"  ->
            <<Frame(<<"main", ".", "main">>, MainFile, 11),
              Frame(<<"runtime", ".", "main">>, RuntimeDir \o <<"proc.go">>, 250), GoexitFrame>>
      [] s = "test" ->
            <<Frame(<<"testing", ".", "tRunner">>, TestingFile, 1446), GoexitFrame>>
      [] s = "deep" ->
            [i \in 1..(DeepFrames - 1) |-> DeepFrame(458)]
                \o <<Frame(<<"testing", ".", "tRunner">>, TestingFile, 1446), GoexitFrame>>

\* The goroutine's stack inside log, innermost frame first, from log outwards.
CallChain(r, c) ==
    <<LogFrame(r), MethodFrame(r, CallMethod(c))>>
        \o (IF c.api = "free" THEN <<FreeFrame(r, c.name)>> ELSE <<>>)
        \o (IF c.api = "wrapper" THEN <<WrapperFrame(c.site)>> ELSE <<>>)
        \o <<SiteFrame(c.site)>>
        \o OuterFrames(c.site)

\* The frame of the code that invoked the library: the innermost frame that is
\* not the library's.
Invoker(c) == IF c.api = "wrapper" THEN WrapperFrame(c.site) ELSE SiteFrame(c.site)

(***************************************************************************)
(* runtime.Caller and runtime.Callers.                                     *)
(***************************************************************************)
\* runtime.Caller(skip) called by the innermost frame of stack: skip 0 is that
\* frame. [ok, frame].
RuntimeCaller(stack, skip) ==
    IF skip + 1 <= Len(stack)
    THEN [ok |-> TRUE, frame |-> stack[skip + 1]]
    ELSE [ok |-> FALSE, frame |-> Frame(<<>>, <<>>, 0)]

\* runtime.Callers(skip, pcs) with len(pcs) = max, called by the innermost frame
\* of stack: skip 0 is Callers itself, 1 its caller. The frames it stores.
RuntimeCallers(stack, skip, max) ==
    LET all == <<RuntimeCallersFrame>> \o stack
    IN  SubSeq(all, skip + 1, Min(Len(all), skip + max))

(***************************************************************************)
(* File names.                                                             *)
(***************************************************************************)
\* fmt.Sprintf("%s:%d", file, line)
FileColonLine(file, line) == file \o <<":", line>>

\* filepath.Base: trailing slashes dropped, then what follows the last slash;
\* "." for the empty path, "/" for a path of slashes only.
RECURSIVE StripTrailingSlashes(_)
StripTrailingSlashes(p) ==
    IF Len(p) > 0 /\ p[Len(p)] = "/"
    THEN StripTrailingSlashes(SubSeq(p, 1, Len(p) - 1))
    ELSE p

Base(path) ==
    IF Len(path) = 0 THEN <<".">>
    ELSE LET p == StripTrailingSlashes(path)
             i == LastIndex(p, "/")
         IN  IF Len(p) = 0 THEN <<"/">>
             ELSE IF i >= 0 THEN SubSeq(p, i + 2, Len(p)) ELSE p

UnknownFile == <<"?", ":", 0>>

\* Mutant of fileInfo: runtime.Caller's ok not looked at, its zero file and line used.
fileInfoUnchecked(l, chain) ==
    LET c == RuntimeCaller(<<FileInfoFrame>> \o chain, l.callDepth)
        slash == LastIndex(c.frame.file, "/")
        file == IF slash >= 0
                THEN SubSeq(c.frame.file, slash + 2, Len(c.frame.file))
                ELSE c.frame.file
    IN  FileColonLine(file, c.frame.line)

\* Logger.fileInfo of the fixed-depth design.
fileInfo(l, chain) ==
    LET c == RuntimeCaller(<<FileInfoFrame>> \o chain, l.callDepth)
        slash == LastIndex(c.frame.file, "/")
        file == IF ~c.ok THEN <<"?">>
                ELSE IF slash >= 0
                     THEN SubSeq(c.frame.file, slash + 2, Len(c.frame.file))
                     ELSE c.frame.file
        line == IF ~c.ok THEN 0 ELSE c.frame.line
    IN  FileColonLine(file, line)

\* Logger.getPackageName
RECURSIVE getPackageName(_)
getPackageName(f) ==
    LET lastPeriod == LastIndex(f, ".")
        lastSlash == LastIndex(f, "/")
    IN  IF lastPeriod > lastSlash
        THEN getPackageName(SubSeq(f, 1, lastPeriod))
        ELSE f

\* The stack New's initSlogPackageName walks: runtime.Callers(0, pcs).
InitStack(max) ==
    RuntimeCallers(
        <<Frame(SlogPkg \o <<".", "(*Logger)", ".", "initSlogPackageName">>, SlogFile, 641),
          Frame(SlogPkg \o <<".", "New">>, SlogFile, 440),
          Frame(SlogPkg \o <<".", "init">>, SlogFile, 455),
          Frame(<<"runtime", ".", "doInit">>, RuntimeDir \o <<"proc.go">>, 6265),
          Frame(<<"runtime", ".", "main">>, RuntimeDir \o <<"proc.go">>, 233),
          GoexitFrame>>, 0, max)

\* Logger.initSlogPackageName
initSlogPackageName(max) ==
    LET pcs == InitStack(max)
        hits == {i \in 1..Len(pcs) : Contains(pcs[i].fn, "initSlogPackageName")}
    IN  IF hits # {}
        THEN getPackageName(pcs[CHOOSE i \in hits : \A j \in hits : i <= j].fn)
        ELSE SlogPkg

\* Mutant of fileNameAndLineNumber: the loop without its break, so that caller is
\* the last frame outside the package.
fileNameAndLineNumberNoBreak(l, chain) ==
    LET frames == RuntimeCallers(<<ScanFrame>> \o chain,
                                 l.minimumCallerDepth, l.maximumCallerDepth)
        outside == {i \in 1..Len(frames) :
                        getPackageName(frames[i].fn) # l.slogPackageName}
    IN  IF outside = {} THEN UnknownFile
        ELSE LET caller == frames[CHOOSE i \in outside : \A j \in outside : j <= i]
             IN  FileColonLine(Base(caller.file), caller.line)

\* Logger.fileNameAndLineNumber of the scan design.
fileNameAndLineNumber(l, chain) ==
    LET frames == RuntimeCallers(<<ScanFrame>> \o chain,
                                 l.minimumCallerDepth, l.maximumCallerDepth)
        outside == {i \in 1..Len(frames) :
                        getPackageName(frames[i].fn) # l.slogPackageName}
    IN  IF outside = {} THEN UnknownFile
        ELSE LET caller == frames[CHOOSE i \in outside : \A j \in outside : i <= j]
             IN  FileColonLine(Base(caller.file), caller.line)

(***************************************************************************)
(* Construction.                                                           *)
(***************************************************************************)
\* Mutant of OutOrStdout: the test for nil the wrong way round.
OutOrStdoutInverted(out) == IF out # NilWriter THEN Stdout ELSE out

\* if out == nil { out = os.Stdout }
OutOrStdout(out) == IF out = NilWriter THEN Stdout ELSE out

\* New(callDepth, out, permanentFields) of the fixed-depth design; out is the
\* writer log.New is given.
NewFixed(callDepth, out, permanentFields) ==
    [callDepth |-> callDepth, out |-> OutOrStdout(out),
     permanentFields |-> permanentFields]

\* New(out, permanentFields) of the scan design.
New(out, permanentFields) ==
    [minimumCallerDepth |-> MinimumCallerDepth,
     maximumCallerDepth |-> MaximumCallerDepth,
     slogPackageName |-> initSlogPackageName(MaximumCallerDepth),
     out |-> OutOrStdout(out),
     permanentFields |-> permanentFields]

\* Mutant of defaultLogger: built with DefaultCallDepth, without the frame of the
\* package-level function.
defaultLoggerUnadjusted(r) ==
    IF r = "fixed" THEN NewFixed(DefaultCallDepth, Stdout, EmptyFields)
    ELSE New(Stdout, EmptyFields)

\* var defaultLogger = New(DefaultCallDepth+1, os.Stdout, nil) / New(os.Stdout, nil)
defaultLogger(r) ==
    IF r = "fixed" THEN NewFixed(DefaultCallDepth + 1, Stdout, EmptyFields)
    ELSE New(Stdout, EmptyFields)

(***************************************************************************)
(* log: the field merge, the event and its serialization.                  *)
(***************************************************************************)
\* for k, v := range src { dst[k] = v }
Assign(dst, src) ==
    [k \in DOMAIN dst \cup DOMAIN src |-> IF k \in DOMAIN src THEN src[k] ELSE dst[k]]

\* Mutant of SprintOrNil: fmt.Sprint(v) without the test for nil before it.
SprintUnchecked(v) == Sprint(v)

\* if v == nil { v = "nil" }; fmt.Sprint(v)
SprintOrNil(v) == Sprint(IF v = GoNil THEN GoString("nil") ELSE v)

\* Mutant of combinedFields: the loops in the other order, so that a per-call
\* value overwrites the permanent one.
combinedFieldsPerCallLast(f, permanentFields) ==
    Assign(Assign(EmptyFields,
                  [k \in DOMAIN permanentFields |-> SprintOrNil(permanentFields[k])]),
           [k \in DOMAIN f |-> SprintOrNil(f[k])])

\* The two loops of the scan design's log: f first, then l.permanentFields.
combinedFields(f, permanentFields) ==
    Assign(Assign(EmptyFields, [k \in DOMAIN f |-> SprintOrNil(f[k])]),
           [k \in DOMAIN permanentFields |-> SprintOrNil(permanentFields[k])])

\* The two loops of the fixed-depth design's log: the values are strings already.
combinedFieldsFixed(f, permanentFields) ==
    Assign(Assign(EmptyFields, [k \in DOMAIN f |-> f[k].s]),
           [k \in DOMAIN permanentFields |-> permanentFields[k].s])

\* Mutant of permanentFieldsAfterMerge: combinedFields := l.permanentFields in
\* place of a new map, so that the loops store the call's fields in the
\* Logger's map.
permanentFieldsMergedInto(f, permanentFields) ==
    Assign(permanentFields, [k \in DOMAIN f |-> GoString(SprintOrNil(f[k]))])

\* What log's two loops leave in l.permanentFields and in the caller's f: they
\* range over the two maps and store to combinedFields, a new map (Fields{}),
\* alone.
permanentFieldsAfterMerge(f, permanentFields) == permanentFields

\* The caller's f after the loops: ranged over, not stored to.
fAfterMerge(f, permanentFields) == f

\* time.Now().UTC().Format(time.RFC3339Nano) of the clock's reading.
RFC3339Nano(t) == <<"2021-06-09T15:39:30.", t, "Z">>

\* Mutant of Marshal: the fields tag without omitempty.
MarshalNoOmitEmpty(e) ==
    [m \in {"_metadata", "fields", "message"} |->
        CASE m = "_metadata" -> e.Metadata
          [] m = "fields"    -> e.Fields
          [] m = "message"   -> e.Message]

\* json.Marshal of an event: "_metadata" and "message" always, "fields" unless
\* the map is empty (omitempty).
Marshal(e) ==
    LET members == {"_metadata", "message"}
                     \cup (IF DOMAIN e.Fields = {} THEN {} ELSE {"fields"})
    IN  [m \in members |->
            CASE m = "_metadata" -> e.Metadata
              [] m = "fields"    -> e.Fields
              [] m = "message"   -> e.Message]

\* string(byt): the serialized event as a string, here a single token: the JSON
\* text of the object byt.
String(byt) == <<[json |-> byt]>>

\* The string es the scan design's log builds (lines 585-612).
logEvent(l, lv, f, msg, chain, now) ==
    String(Marshal([Metadata |-> [level |-> lv,
                           file |-> fileNameAndLineNumber(l, chain),
                           time |-> RFC3339Nano(now)],
             Fields |-> combinedFields(f, l.permanentFields),
             Message |-> SprintOrNil(msg)]))

\* The string the fixed-depth design's log builds (lines 165-186).
logEventFixed(l, lv, f, msg, chain, now) ==
    String(Marshal([Metadata |-> [level |-> lv,
                           file |-> fileInfo(l, chain),
                           time |-> RFC3339Nano(now)],
             Fields |-> combinedFieldsFixed(f, l.permanentFields),
             Message |-> msg.s]))

\* Mutant of Line: es written to the sink as it is (fmt.Fprint(out, es)).
LineNoNewline(s) == s

\* What log.Logger's Print / Output puts in its buffer for s: s, and a newline
\* since s, which ends in the object's closing brace, does not end in one.
Line(s) == s \o <<Newline>>

\* Mutant of MutexFree: Output without the mutex.
MutexFreeAlways(l) == TRUE

\* log.Logger's Output takes the Logger's mutex before it touches the buffer.
MutexFree(l) == mu[l] = 0

\* Mutant of MutexAfterWrite: Output returning the Write's error before an Unlock
\* that is not deferred.
MutexKeptOnError(t, res) == IF res = "err" THEN t ELSE 0

\* defer l.mu.Unlock() in Output: the mutex is free again when Output returns,
\* whatever Write returned.
MutexAfterWrite(t, res) == 0

\* Mutant of AfterWrite: the Write tried again until it succeeds in full.
AfterWriteRetry(res) == IF res = "ok" THEN "after" ELSE "write"

\* Print drops what Write returned: log goes on whatever the result.
AfterWrite(res) == "after"

\* Mutant of PanicsAfterPrint: the test made against the wrong level.
PanicsAfterPrintOnError(lv) == lv = "error"

\* if lv == panicLevel { panic(es) }
PanicsAfterPrint(lv) == lv = "panic"

(***************************************************************************)
(* The inputs.                                                             *)
(***************************************************************************)
AllStrings(m) == \A k \in DOMAIN m : m[k].kind = "string"

FieldArgs ==
    {EmptyFields,
     ("test" :> GoString("shadow") @@ "local" :> GoString("message")),
     ("test" :> GoNil @@ "local" :> GoInt("7")),
     ("test" :> GoNilPtr @@ "local" :> GoString(""))}

PermArgs ==
    {EmptyFields,
     ("test" :> GoString("message")),
     ("test" :> GoNil @@ "ip" :> GoString("localhost"))}

MsgArgs == {GoString("hello"), GoString(""), GoNil, GoNilPtr}

\* The fixed-depth design's Fields and messages are strings.
FieldArgsOf(r) == IF r = "fixed" THEN {f \in FieldArgs : AllStrings(f)} ELSE FieldArgs
PermArgsOf(r) == IF r = "fixed" THEN {f \in PermArgs : AllStrings(f)} ELSE PermArgs
MsgArgsOf(r) == IF r = "fixed" THEN {m \in MsgArgs : m.kind = "string"} ELSE MsgArgs

CallDepths == {DefaultCallDepth, DefaultCallDepth + 1, HugeCallDepth}

\* The out a user passes to New: nil, or a writer of theirs.
OutArgs == {NilWriter, "w"}

WriteResults == {"ok", "short", "err"}

NoCall ==
    [name |-> "Info", api |-> "method", f |-> EmptyFields, msg |-> GoNil,
     site |-> "main", recovers |-> FALSE]

NoPanic == [raised |-> FALSE, value |-> <<>>]

\* The process: running, or ended with an exit status.
Running == [running |-> TRUE, code |-> 0]
Exited(code) == [running |-> FALSE, code |-> code]

(***************************************************************************)
(* The state machine.                                                      *)
(***************************************************************************)
TypeOK ==
    /\ rev \in {"fixed", "scan"}
    /\ \A l \in Loggers : mu[l] \in 0..NThreads
    /\ \A t \in Threads :
          /\ pc[t] \in {"idle", "log", "print", "write", "after", "osexit",
                        "exited", "crashed"}
          /\ ncalls[t] \in Nat
    /\ exitStatus \in {Running, Exited(1), Exited(2)}

\* The program built from design r, whose user called New with out and
\* permanentFields (and callDepth, in the fixed-depth design).
InitWith(r, callDepth, out, permanentFields) ==
    /\ rev = r
    /\ logger = [l \in Loggers |->
                    IF l = "default" THEN defaultLogger(r)
                    ELSE IF r = "fixed" THEN NewFixed(callDepth, out, permanentFields)
                    ELSE New(out, permanentFields)]
    /\ atNew = [l \in Loggers |->
                   IF l = "default"
                   THEN [out |-> Stdout, permanentFields |-> EmptyFields,
                         callDepth |-> DefaultCallDepth + 1]
                   ELSE [out |-> out, permanentFields |-> permanentFields,
                         callDepth |-> callDepth]]
    /\ mu = [l \in Loggers |-> 0]
    /\ buf = [l \in Loggers |-> <<>>]
    /\ sink = [w \in Writers |-> <<>>]
    /\ pc = [t \in Threads |-> "idle"]
    /\ call = [t \in Threads |-> NoCall]
    /\ es = [t \in Threads |-> <<>>]
    /\ wrote = [t \in Threads |-> <<>>]
    /\ panicValue = [t \in Threads |-> NoPanic]
    /\ ncalls = [t \in Threads |-> 0]
    /\ exitStatus = Running
    /\ clock = 0

\* The program after its Loggers are constructed: defaultLogger by the package,
\* the other by the user's New.
Init ==
    \/ \E cd \in CallDepths, out \in OutArgs, p \in PermArgsOf("fixed") :
          InitWith("fixed", cd, out, p)
    \/ \E out \in OutArgs, p \in PermArgsOf("scan") :
          InitWith("scan", DefaultCallDepth, out, p)

RECURSIVE SumCalls(_)
SumCalls(n) == IF n = 0 THEN 0 ELSE ncalls[n] + SumCalls(n - 1)

TotalCalls == SumCalls(NThreads)

\* A goroutine calls a level method or a package-level function.
StartCall(t, c) ==
    /\ exitStatus.running
    /\ pc[t] = "idle"
    /\ call' = [call EXCEPT ![t] = c]
    /\ pc' = [pc EXCEPT ![t] = "log"]
    /\ es' = [es EXCEPT ![t] = <<>>]
    /\ wrote' = [wrote EXCEPT ![t] = <<>>]
    /\ panicValue' = [panicValue EXCEPT ![t] = NoPanic]
    /\ ncalls' = [ncalls EXCEPT ![t] = @ + 1]
    /\ UNCHANGED <<rev, logger, atNew, mu, buf, sink, exitStatus, clock>>

\* One call, its arguments drawn from all the inputs.
Call(t) ==
    /\ \A u \in Threads : ncalls[u] = 0
    /\ \E name \in Methods(rev), api \in Apis, site \in Sites, msg \in MsgArgsOf(rev) :
       \E f \in (IF TakesFields(name) THEN FieldArgsOf(rev) ELSE {EmptyFields}) :
       \E recovers \in (IF MethodLevel(name) = "panic" THEN BOOLEAN ELSE {FALSE}) :
          StartCall(t, [name |-> name, api |-> api, f |-> f, msg |-> msg,
                        site |-> site, recovers |-> recovers])

\* log up to json.Marshal: the merge, the call site, the time, the serialization.
LogBuild(t) ==
    /\ exitStatus.running
    /\ pc[t] = "log"
    /\ LET c == call[t]
           l == logger[CallLogger(c)]
           m == CallMethod(c)
       IN  es' = [es EXCEPT ![t] =
                    IF rev = "fixed"
                    THEN logEventFixed(l, MethodLevel(m), MethodFields(m, c.f), c.msg,
                                       CallChain(rev, c), clock)
                    ELSE logEvent(l, MethodLevel(m), MethodFields(m, c.f), c.msg,
                                  CallChain(rev, c), clock)]
    /\ LET c == call[t]
           l == CallLogger(c)
       IN  /\ logger' = [logger EXCEPT ![l].permanentFields =
                            permanentFieldsAfterMerge(MethodFields(CallMethod(c), c.f), @)]
           /\ call' = [call EXCEPT ![t].f = fAfterMerge(@, logger[l].permanentFields)]
    /\ clock' = clock + 1
    /\ pc' = [pc EXCEPT ![t] = "print"]
    /\ UNCHANGED <<rev, atNew, mu, buf, sink, wrote, panicValue, ncalls, exitStatus>>

\* l.logger.Print(es), first half: Output locks the mutex and fills the buffer.
Lock(t) ==
    /\ exitStatus.running
    /\ pc[t] = "print"
    /\ LET l == CallLogger(call[t])
       IN  /\ MutexFree(l)
           /\ mu' = [mu EXCEPT ![l] = t]
           /\ buf' = [buf EXCEPT ![l] = Line(es[t])]
    /\ pc' = [pc EXCEPT ![t] = "write"]
    /\ UNCHANGED <<rev, logger, atNew, sink, call, es, wrote, panicValue, ncalls, exitStatus, clock>>

\* l.logger.Print(es), second half: one Write of the buffer, whose result Print
\* drops, and the deferred Unlock.
Write(t) ==
    /\ exitStatus.running
    /\ pc[t] = "write"
    /\ LET l == CallLogger(call[t])
       IN  \E res \in WriteResults :
              /\ sink' = [sink EXCEPT ![logger[l].out] =
                                Append(@, [bytes |-> buf[l], res |-> res])]
              /\ wrote' = [wrote EXCEPT ![t] = Append(@, buf[l])]
              /\ mu' = [mu EXCEPT ![l] = MutexAfterWrite(t, res)]
              /\ pc' = [pc EXCEPT ![t] = AfterWrite(res)]
    /\ UNCHANGED <<rev, logger, atNew, buf, call, es, panicValue, ncalls, exitStatus, clock>>

\* panic(es): the caller recovers it, or the process dies of it.
Panic(t) ==
    /\ exitStatus.running
    /\ pc[t] = "after"
    /\ PanicsAfterPrint(CallLevel(call[t]))
    /\ panicValue' = [panicValue EXCEPT ![t] = [raised |-> TRUE, value |-> es[t]]]
    /\ IF call[t].recovers
       THEN /\ pc' = [pc EXCEPT ![t] = "idle"]
            /\ UNCHANGED exitStatus
       ELSE /\ pc' = [pc EXCEPT ![t] = "crashed"]
            /\ exitStatus' = Exited(2)  \* the runtime's status for a panic no one recovers
    /\ UNCHANGED <<rev, logger, atNew, mu, buf, sink, call, es, wrote, ncalls, clock>>

\* log returns to the level method: Fatal and Fatalf go on to os.Exit, the
\* others return to the caller.
Return(t) ==
    /\ exitStatus.running
    /\ pc[t] = "after"
    /\ ~PanicsAfterPrint(CallLevel(call[t]))
    /\ pc' = [pc EXCEPT ![t] =
                IF ExitsAfterLog(CallMethod(call[t])) THEN "osexit" ELSE "idle"]
    /\ UNCHANGED <<rev, logger, atNew, mu, buf, sink, call, es, wrote, panicValue, ncalls,
                   exitStatus, clock>>

\* os.Exit(1)
OsExit(t) ==
    /\ exitStatus.running
    /\ pc[t] = "osexit"
    /\ exitStatus' = Exited(ExitCodeFatal)
    /\ pc' = [pc EXCEPT ![t] = "exited"]
    /\ UNCHANGED <<rev, logger, atNew, mu, buf, sink, call, es, wrote, panicValue, ncalls, clock>>

Step(t) ==
    \/ LogBuild(t)
    \/ Lock(t)
    \/ Write(t)
    \/ Panic(t)
    \/ Return(t)
    \/ OsExit(t)

Next == \E t \in Threads : Call(t) \/ Step(t)

Spec == Init /\ [][Next]_vars

(***************************************************************************)
(* Many calls: goroutines that each log through the Loggers again and      *)
(* again, MaxCalls calls in all, with arguments from a smaller set: one    *)
(* method per way a call ends (return, panic, exit); the callers recover    *)
(* the panics, as the package's tests do.                                  *)
(***************************************************************************)
ManyNames == {"Info", "Panicf", "Fatal"}
\* Each goroutine logs a message of its own.
ManyMsgs == <<"hello", "world", "again", "more">>
ThreadMsg(t) == GoString(ManyMsgs[t])
ManyFields == ("test" :> GoString("shadow") @@ "local" :> GoString("message"))
ManyPerm == ("test" :> GoString("message"))

InitMany ==
    \/ InitWith("fixed", DefaultCallDepth, "w", ManyPerm)
    \/ InitWith("scan", DefaultCallDepth, "w", ManyPerm)

CallMany(t) ==
    /\ TotalCalls < MaxCalls
    /\ \E name \in ManyNames \cap Methods(rev), api \in {"method", "free"} :
          StartCall(t, [name |-> name, api |-> api,
                        f |-> MethodFields(name, ManyFields), msg |-> ThreadMsg(t),
                        site |-> "main", recovers |-> MethodLevel(name) = "panic"])

NextMany == \E t \in Threads : CallMany(t) \/ Step(t)

SpecMany == InitMany /\ [][NextMany]_vars

(***************************************************************************)
(* The caller's hold on the permanent fields. New stores the map it is     *)
(* given (permanentFields: permanentFields, no copy), and a Go map is a    *)
(* reference: the variable the caller passed and the Logger's field are    *)
(* the same map object, so what the caller writes to its map after New is  *)
(* written to l.permanentFields. The writes here are made while no         *)
(* goroutine is inside log's loops over the map (no data race).            *)
(***************************************************************************)
AliasNames == {"Infof", "Panic", "Fatal"}
AliasKeys == {"test"}
AliasValues == {GoString("changed")}

\* delete(p, k) on the map p.
MapDelete(p, k) == [j \in DOMAIN p \ {k} |-> p[j]]

\* p[k] = v on the map p.
MapStore(p, k, v) == [j \in DOMAIN p \cup {k} |-> IF j = k THEN v ELSE p[j]]

InitAlias ==
    \/ \E p \in PermArgsOf("fixed") : InitWith("fixed", DefaultCallDepth, "w", p)
    \/ \E p \in PermArgsOf("scan") : InitWith("scan", DefaultCallDepth, "w", p)

CallAlias(t) ==
    /\ TotalCalls < MaxCalls
    /\ \E name \in AliasNames \cap Methods(rev), api \in {"method", "free"} :
          StartCall(t, [name |-> name, api |-> api,
                        f |-> MethodFields(name, ManyFields), msg |-> ThreadMsg(t),
                        site |-> "main", recovers |-> MethodLevel(name) = "panic"])

\* The caller, after New returned, stores to or deletes from the map it passed.
CallerWrites ==
    /\ exitStatus.running
    /\ \A t \in Threads : pc[t] # "log"
    /\ \E k \in AliasKeys :
          \/ /\ k \in DOMAIN logger["user"].permanentFields
             /\ logger' = [logger EXCEPT !["user"].permanentFields = MapDelete(@, k)]
          \/ \E v \in AliasValues :
                logger' = [logger EXCEPT !["user"].permanentFields = MapStore(@, k, v)]
    /\ UNCHANGED <<rev, atNew, mu, buf, sink, pc, call, es, wrote, panicValue, ncalls,
                   exitStatus, clock>>

NextAlias == CallerWrites \/ \E t \in Threads : CallAlias(t) \/ Step(t)

SpecAlias == InitAlias /\ [][NextAlias]_vars

(***************************************************************************)
(* What the claims speak of.                                               *)
(***************************************************************************)
\* The goroutine's call has built its serialized event.
Built(t) == ncalls[t] > 0 /\ pc[t] \notin {"log"}

\* The goroutine's call is past its Write.
PastWrite(t) == ncalls[t] > 0 /\ pc[t] \notin {"log", "print", "write"}

\* The goroutine's call is over and its caller runs on.
Ended(t) == ncalls[t] > 0 /\ pc[t] = "idle"

\* The arguments the call hands to log, and the Logger it is made on.
PerCall(t) == IF TakesFields(call[t].name) THEN call[t].f ELSE EmptyFields
Permanent(t) == logger[CallLogger(call[t])].permanentFields

\* A value as the emitted JSON shows it.
Rendered(v) == IF v.kind = "nil" THEN "nil" ELSE v.s

\* The "fields" member of a serialized event, the empty map when it has none.
EmittedFields(e) == IF "fields" \in DOMAIN e THEN e["fields"] ELSE EmptyFields

\* The JSON object a serialized event string holds.
JsonOf(s) == s[1].json

\* "<base>:<line>" of a frame, the base being what follows the path's last slash.
Location(fr) == <<fr.file[Len(fr.file)], ":", fr.line>>

LevelOfName(name) ==
    CASE name \in {"Trace", "Tracef"} -> "trace"
      [] name \in {"Info", "Infof"}   -> "info"
      [] name \in {"Warn", "Warnf"}   -> "warn"
      [] name \in {"Error", "Errorf"} -> "error"
      [] name \in {"Panic", "Panicf"} -> "panic"
      [] name \in {"Fatal", "Fatalf"} -> "fatal"

\* C1: the emitted fields of a log call are merge(F, P): their keys are the keys
\* of the per-call fields F and of the permanent fields P together, a key of P
\* carries P's value (also when F has the key), a key of F alone carries F's.
C1_MergePermanentWins ==
    \A t \in Threads :
        Built(t) =>
            LET F == PerCall(t)
                P == Permanent(t)
                E == EmittedFields(JsonOf(es[t]))
            IN  /\ DOMAIN E = DOMAIN F \cup DOMAIN P
                /\ \A k \in DOMAIN P : E[k] = Rendered(P[k])
                /\ \A k \in DOMAIN F \ DOMAIN P : E[k] = Rendered(F[k])

\* A call whose per-call and permanent fields share a key with different values,
\* and whose per-call fields have a key of their own.
C1_Witness ==
    \E t \in Threads :
        /\ Built(t) /\ rev = "scan"
        /\ \E k \in DOMAIN PerCall(t) \cap DOMAIN Permanent(t) :
              /\ Rendered(PerCall(t)[k]) # Rendered(Permanent(t)[k])
              /\ EmittedFields(JsonOf(es[t]))[k] = Rendered(Permanent(t)[k])
        /\ \E k \in DOMAIN PerCall(t) \ DOMAIN Permanent(t) :
              EmittedFields(JsonOf(es[t]))[k] = Rendered(PerCall(t)[k])

\* C2 as stated: the value a Panic or Panicf call's panic carries equals the
\* line the call wrote to the sink.
C2_PanicValueIsLine ==
    \A t \in Threads :
        panicValue[t].raised =>
            /\ Len(wrote[t]) = 1
            /\ panicValue[t].value = wrote[t][1]

\* C2, amended: a Panic or Panicf call, on a Logger or through the package-level
\* function, ends in a panic and in no other way; when the panic is raised the
\* call has written its line to the sink, and the panic carries the serialized
\* event: the line that was written without the newline that ends it.
C2_PanicAfterWrite ==
    \A t \in Threads :
        /\ (ncalls[t] > 0 /\ call[t].name \in {"Panic", "Panicf"}
                /\ pc[t] \in {"idle", "crashed", "osexit", "exited"})
              => panicValue[t].raised /\ pc[t] \in {"idle", "crashed"}
        /\ panicValue[t].raised =>
              /\ call[t].name \in {"Panic", "Panicf"}
              /\ panicValue[t].value = es[t]
              /\ wrote[t] = <<panicValue[t].value \o <<Newline>>>>
              /\ \E i \in 1..Len(sink[CallOut(call[t])]) :
                    sink[CallOut(call[t])][i].bytes = panicValue[t].value \o <<Newline>>

\* A Panic made through the package-level function, recovered by its caller.
C2_Witness ==
    \E t \in Threads :
        /\ Ended(t) /\ call[t].api = "free" /\ call[t].name = "Panic"
        /\ panicValue[t].raised
        /\ sink[Stdout] = <<[bytes |-> panicValue[t].value \o <<Newline>>, res |-> "ok"]>>

\* C3: a Fatal or Fatalf call, on a Logger or through the package-level function,
\* never returns to its caller and raises no panic; when it is about to exit the
\* call has written its line to the sink, and the process it ends has status 1.
C3_FatalExits ==
    \A t \in Threads :
        (ncalls[t] > 0 /\ call[t].name \in {"Fatal", "Fatalf"}) =>
            /\ pc[t] \notin {"idle", "crashed"}
            /\ ~panicValue[t].raised
            /\ pc[t] \in {"osexit", "exited"} =>
                  /\ wrote[t] = <<Line(es[t])>>
                  /\ \E i \in 1..Len(sink[CallOut(call[t])]) :
                        sink[CallOut(call[t])][i].bytes = Line(es[t])
            /\ pc[t] = "exited" => exitStatus = Exited(1)
            /\ exitStatus.running => pc[t] # "exited"

\* A Fatalf made through the package-level function has ended the process.
C3_Witness ==
    \E t \in Threads :
        /\ call[t].api = "free" /\ call[t].name = "Fatalf"
        /\ pc[t] = "exited" /\ exitStatus = Exited(1)
        /\ Len(sink[Stdout]) = 1

\* C4: when goroutines each make one call, all at once, every Logger's sink has
\* received one line per call that is past its Write and no other: each such
\* call's line is there once, whole (the call's serialized event and the
\* newline), and the event is the call's own: its level, its fields merged with
\* the permanent ones, its message.
C4_OneWholeLinePerCall ==
    (\A t \in Threads : ncalls[t] <= 1) =>
        \A l \in Loggers :
            LET W == {t \in Threads : PastWrite(t) /\ CallLogger(call[t]) = l}
                S == sink[logger[l].out]
            IN  /\ Len(S) = Cardinality(W)
                /\ \A i \in 1..Len(S) : \E t \in W : S[i].bytes = Line(es[t])
                /\ \A t \in W :
                      /\ Cardinality({i \in 1..Len(S) :
                                         S[i].bytes = es[t] \o <<Newline>>}) = 1
                      /\ wrote[t] = <<es[t] \o <<Newline>>>>
                      /\ JsonOf(es[t])["message"] = call[t].msg.s
                      /\ JsonOf(es[t])["_metadata"].level = LevelOfName(call[t].name)
                      /\ EmittedFields(JsonOf(es[t])) =
                            [k \in DOMAIN PerCall(t) \cup DOMAIN Permanent(t) |->
                                IF k \in DOMAIN Permanent(t)
                                THEN Rendered(Permanent(t)[k])
                                ELSE Rendered(PerCall(t)[k])]

\* Every goroutine has made its one call on the same Logger, the calls overlapped
\* (the line of the call that built its event last was written first), and the
\* sink holds as many lines as there are goroutines.
C4_Witness ==
    /\ \A t \in Threads :
          /\ ncalls[t] = 1 /\ pc[t] = "idle" /\ CallLogger(call[t]) = "user"
    /\ Len(sink["w"]) = NThreads
    /\ \E t \in Threads :
          /\ sink["w"][1].bytes = Line(es[t])
          /\ JsonOf(es[t])["_metadata"].time = RFC3339Nano(NThreads - 1)

\* C5: the file of an event of the scan design names the code that invoked the
\* logging call (a Logger method or a package-level function): its file's base
\* name and its line, never log.go, and log_test.go for a call from the test.
C5_ScanReportsInvoker ==
    \A t \in Threads :
        (Built(t) /\ rev = "scan") =>
            LET file == JsonOf(es[t])["_metadata"].file
            IN  /\ file = Location(Invoker(call[t]))
                /\ file[1] # "log.go"
                /\ call[t].site = "test" => file[1] = "log_test.go"

\* The three styles of C6: a Logger method on a Logger built with
\* DefaultCallDepth, a package-level function, a user's wrapper around a Logger
\* built with DefaultCallDepth+1.
C6_Style(t) ==
    \/ call[t].api = "method" /\ logger["user"].callDepth = DefaultCallDepth
    \/ call[t].api = "free"
    \/ call[t].api = "wrapper" /\ logger["user"].callDepth = DefaultCallDepth + 1

\* C6: in the fixed-depth design a call issued from one source line reports that
\* line's file and number in each of the three styles, hence the same in all.
C6_SameLineInThreeStyles ==
    \A t \in Threads :
        (Built(t) /\ rev = "fixed" /\ C6_Style(t)) =>
            JsonOf(es[t])["_metadata"].file = Location(SiteFrame(call[t].site))

\* A call through a user's wrapper around a Logger built with DefaultCallDepth+1
\* reports the line the wrapper was called from.
C6_Witness ==
    \E t \in Threads :
        /\ Built(t) /\ rev = "fixed"
        /\ call[t].api = "wrapper" /\ call[t].site = "main"
        /\ logger["user"].callDepth = DefaultCallDepth + 1
        /\ JsonOf(es[t])["_metadata"].file = <<"main.go", ":", 6>>

\* The Logger's call depth is past the outermost frame of the goroutine's stack.
C7_Unresolvable(t) ==
    logger[CallLogger(call[t])].callDepth >= Len(CallChain(rev, call[t])) + 1

\* C7: when the fixed call depth is past the end of the stack the event's file is
\* "?:0", and the event is written all the same, with its level, fields and
\* message, and the call ends as any other.
C7_UnknownCallSite ==
    \A t \in Threads :
        (Built(t) /\ rev = "fixed" /\ C7_Unresolvable(t)) =>
            /\ JsonOf(es[t])["_metadata"].file = <<"?", ":", 0>>
            /\ JsonOf(es[t])["_metadata"].level = LevelOfName(call[t].name)
            /\ JsonOf(es[t])["message"] = call[t].msg.s
            /\ DOMAIN EmittedFields(JsonOf(es[t])) = DOMAIN PerCall(t) \cup DOMAIN Permanent(t)
            /\ pc[t] \in {"print", "write", "after", "idle"}
            /\ ~panicValue[t].raised
            /\ PastWrite(t) =>
                  /\ wrote[t] = <<Line(es[t])>>
                  /\ sink[CallOut(call[t])][Len(sink[CallOut(call[t])])].bytes
                        = Line(es[t])

\* A call on a Logger built with New(10000000, ...) has returned, its line written.
C7_Witness ==
    \E t \in Threads :
        /\ Ended(t) /\ rev = "fixed"
        /\ logger["user"].callDepth = HugeCallDepth /\ call[t].api = "method"
        /\ JsonOf(es[t])["_metadata"].file = <<"?", ":", 0>>
        /\ Len(sink["w"]) = 1

\* C8: the level of an emitted event is the name of the severity that was
\* invoked, for <Level> and <Level>f, on a Logger and through the package.
C8_LevelIsSeverity ==
    \A t \in Threads :
        Built(t) => JsonOf(es[t])["_metadata"].level = LevelOfName(call[t].name)

\* A Panicf made through the package-level function is at level "panic".
C8_Witness ==
    \E t \in Threads :
        /\ Built(t) /\ call[t].api = "free" /\ call[t].name = "Panicf"
        /\ JsonOf(es[t])["_metadata"].level = "panic"

\* C9: the serialized event has the member "fields" exactly when the merged field
\* set is not empty: its members are "_metadata" and "message" when the call has
\* no per-call and no permanent fields, "_metadata", "fields" and "message"
\* otherwise; "_metadata" holds a non-empty "level", "file" and "time".
C9_FieldsOmittedIffEmpty ==
    \A t \in Threads :
        Built(t) =>
            LET j == JsonOf(es[t])
                merged == DOMAIN PerCall(t) \cup DOMAIN Permanent(t)
            IN  /\ DOMAIN j = IF merged = {} THEN {"_metadata", "message"}
                              ELSE {"_metadata", "fields", "message"}
                /\ "fields" \in DOMAIN j => DOMAIN j["fields"] # {}
                /\ DOMAIN j["_metadata"] = {"level", "file", "time"}
                /\ j["_metadata"].level # ""
                /\ Len(j["_metadata"].file) > 0
                /\ Len(j["_metadata"].time) > 0

\* A call with no per-call fields on a Logger with no permanent fields: the event
\* has no "fields" member.
C9_Witness ==
    \E t \in Threads :
        /\ Built(t) /\ call[t].api = "method" /\ call[t].name = "Infof"
        /\ call[t].f = EmptyFields /\ Permanent(t) = EmptyFields
        /\ DOMAIN JsonOf(es[t]) = {"_metadata", "message"}

\* The result of the Write the goroutine's current call made.
C10_WriteFailed(t) ==
    \E i \in 1..Len(sink[CallOut(call[t])]) :
        /\ sink[CallOut(call[t])][i].bytes = Line(es[t])
        /\ sink[CallOut(call[t])][i].res # "ok"

\* C10: a call makes one Write and no second one, whatever the Write returned;
\* it then goes on as its severity says (it returns, panics for panic, exits for
\* fatal) and raises nothing else; and a call made after another's failed Write
\* writes its own line like any other.
C10_WriteFailureIgnored ==
    \A t \in Threads :
        /\ Len(wrote[t]) <= 1
        /\ PastWrite(t) =>
              /\ wrote[t] = <<Line(es[t])>>
              /\ LevelOfName(call[t].name) = "panic" =>
                    /\ pc[t] \in {"after", "idle", "crashed"}
                    /\ pc[t] # "after" => panicValue[t].raised
              /\ LevelOfName(call[t].name) = "fatal" =>
                    pc[t] \in {"after", "osexit", "exited"}
              /\ LevelOfName(call[t].name) \notin {"panic", "fatal"} =>
                    pc[t] \in {"after", "idle"}
              /\ LevelOfName(call[t].name) # "panic" => ~panicValue[t].raised
        /\ (ncalls[t] > 0 /\ ~PastWrite(t)) => ~panicValue[t].raised

\* A goroutine's first call had its Write fail and returned; its second call, on
\* the same Logger, has written its line and returned too.
C10_Witness ==
    \E t \in Threads :
        /\ ncalls[t] = 2 /\ pc[t] = "idle" /\ call[t].name = "Info"
        /\ Len(sink["w"]) = 2
        /\ sink["w"][1].res = "err"
        /\ sink["w"][2].bytes = Line(es[t])
        /\ sink["w"][2].res = "ok"
        /\ exitStatus.running

\* C12: every event a Logger emits carries every key of the permanent fields
\* that were passed to New, with the value the key had when New was called,
\* whatever the caller did to its map after New returned.
C12_PermanentFieldsFixedAtNew ==
    \A t \in Threads :
        Built(t) =>
            LET P == atNew[CallLogger(call[t])].permanentFields
                E == EmittedFields(JsonOf(es[t]))
            IN  \A k \in DOMAIN P : k \in DOMAIN E /\ E[k] = Rendered(P[k])

\* The number of Writes the calls of goroutines 1..n owe: one for each call that
\* is past its Write.
RECURSIVE C13_CallsPastWrite(_)
C13_CallsPastWrite(n) ==
    IF n = 0 THEN 0
    ELSE C13_CallsPastWrite(n - 1)
            + (IF ncalls[n] = 0 THEN 0
               ELSE IF PastWrite(n) THEN ncalls[n] ELSE ncalls[n] - 1)

RECURSIVE C13_Writes(_)
C13_Writes(ls) ==
    IF ls = {} THEN 0
    ELSE LET l == CHOOSE x \in ls : TRUE
         IN  Len(sink[l]) + C13_Writes(ls \ {l})

\* C13: over any sequence of calls the sinks have received as many Writes as
\* there are calls past their Write, one per call; the bytes of a call's Write
\* are its serialized event, a whole JSON object with the call's level and
\* message, followed by a newline; every Write the sinks received holds one
\* event and the newline, no more and no less.
C13_OneWritePerCall ==
    /\ C13_Writes(Writers) = C13_CallsPastWrite(NThreads)
    /\ \A l \in Writers : \A i \in 1..Len(sink[l]) :
          /\ Len(sink[l][i].bytes) = 2
          /\ {"_metadata", "message"} \subseteq DOMAIN sink[l][i].bytes[1].json
          /\ sink[l][i].bytes[2] = Newline
    /\ \A t \in Threads :
          /\ Len(wrote[t]) <= 1
          /\ (ncalls[t] > 0 /\ ~PastWrite(t)) => wrote[t] = <<>>
          /\ PastWrite(t) =>
                /\ wrote[t] = <<es[t] \o <<Newline>>>>
                /\ Len(es[t]) = 1
                /\ JsonOf(es[t])["_metadata"].level = LevelOfName(call[t].name)
                /\ JsonOf(es[t])["message"] = Rendered(call[t].msg)
                /\ \E i \in 1..Len(sink[CallOut(call[t])]) :
                      sink[CallOut(call[t])][i].bytes = wrote[t][1]

\* A goroutine made two calls on one Logger and both returned: the sink received
\* two Writes, each of one event and a newline, the second the later event.
C13_Witness ==
    \E t \in Threads :
        /\ ncalls[t] = 2 /\ pc[t] = "idle" /\ CallLogger(call[t]) = "user"
        /\ Len(sink["w"]) = 2
        /\ sink["w"][1].bytes # sink["w"][2].bytes
        /\ sink["w"][2].bytes = es[t] \o <<Newline>>
        /\ sink["w"][1].bytes[2] = Newline

\* A value that is nil or empty: the nil interface, or the empty string.
C14_NilOrEmpty(v) == v = GoNil \/ v = GoString("")

\* The value the event shows for the key k of the merge of F and P.
C14_Source(F, P, k) == IF k \in DOMAIN P THEN P[k] ELSE F[k]

\* C14 as stated: in the arbitrary-value design every field value and the
\* message are emitted as fmt.Sprint renders them, and a nil or empty field
\* value or a nil message is emitted as "nil".
C14_NilOrEmptyAsNil ==
    \A t \in Threads :
        (Built(t) /\ rev = "scan") =>
            LET F == PerCall(t)
                P == Permanent(t)
                E == EmittedFields(JsonOf(es[t]))
            IN  /\ \A k \in DOMAIN E :
                      E[k] = IF C14_NilOrEmpty(C14_Source(F, P, k)) THEN "nil"
                             ELSE Sprint(C14_Source(F, P, k))
                /\ JsonOf(es[t])["message"] =
                      IF call[t].msg = GoNil THEN "nil" ELSE Sprint(call[t].msg)

\* C14, amended: in the arbitrary-value design every field value and the message
\* are emitted as the strings fmt.Sprint renders them to, and a field value or
\* a message that is the nil interface value is emitted as "nil"; an empty
\* string is emitted as the empty string, a nil pointer as fmt.Sprint prints it.
C14_NilAsNil ==
    \A t \in Threads :
        (Built(t) /\ rev = "scan") =>
            LET F == PerCall(t)
                P == Permanent(t)
                E == EmittedFields(JsonOf(es[t]))
            IN  /\ \A k \in DOMAIN E :
                      E[k] = IF C14_Source(F, P, k) = GoNil THEN "nil"
                             ELSE Sprint(C14_Source(F, P, k))
                /\ JsonOf(es[t])["message"] =
                      IF call[t].msg = GoNil THEN "nil" ELSE Sprint(call[t].msg)
                /\ \A k \in DOMAIN E :
                      C14_Source(F, P, k) = GoString("") => E[k] = ""

\* An event with a nil permanent value emitted as "nil", an empty per-call string
\* emitted as the empty string, and a nil message emitted as "nil".
C14_Witness ==
    \E t \in Threads :
        /\ Built(t) /\ rev = "scan" /\ call[t].msg = GoNil
        /\ "test" \in DOMAIN Permanent(t) /\ Permanent(t)["test"] = GoNil
        /\ "local" \in DOMAIN PerCall(t) /\ PerCall(t)["local"] = GoString("")
        /\ EmittedFields(JsonOf(es[t]))["test"] = "nil"
        /\ EmittedFields(JsonOf(es[t]))["local"] = ""
        /\ JsonOf(es[t])["message"] = "nil"

\* The string whose text is what fmt.Sprint prints for the Go value v.
C15_Text(v) == <<[text |-> Sprint(v)]>>

\* C15: the value recovered from the panic of Logger.Panic(msg) is msg, the
\* message alone; the panic of Logger.Panicf(f, msg) carries the fields and the
\* message.
C15_PanicValueIsMsg ==
    \A t \in Threads :
        panicValue[t].raised =>
            /\ CallMethod(call[t]) = "Panic" =>
                  panicValue[t].value = C15_Text(call[t].msg)
            /\ CallMethod(call[t]) = "Panicf" =>
                  /\ JsonOf(panicValue[t].value)["message"] = Rendered(call[t].msg)
                  /\ DOMAIN EmittedFields(JsonOf(panicValue[t].value))
                        = DOMAIN PerCall(t) \cup DOMAIN Permanent(t)

\* The writer the claim gives the Logger l: os.Stdout when New was called with a
\* nil out, the out New was called with otherwise.
C16_Expected(l) == IF atNew[l].out = NilWriter THEN Stdout ELSE atNew[l].out

\* C16: a Logger built by New with a nil out writes to os.Stdout and one built
\* with a writer writes to that writer: it is the Logger's writer, the line of a
\* call on the Logger is received by it and no other writer receives anything
\* from the call; and as long as no call has made its Write no writer has
\* received anything, New having written nothing.
C16_SinkIsOutOrStdout ==
    /\ \A l \in Loggers : logger[l].out = C16_Expected(l)
    /\ \A t \in Threads :
          PastWrite(t) =>
              LET exp == C16_Expected(CallLogger(call[t]))
              IN  /\ sink[exp] = <<[bytes |-> es[t] \o <<Newline>>,
                                    res |-> sink[exp][1].res]>>
                  /\ \A w \in Writers \ {exp} : sink[w] = <<>>
    /\ (\A t \in Threads : ~PastWrite(t)) => \A w \in Writers : sink[w] = <<>>

\* A call on a Logger built with New(nil, ...) has written its line: os.Stdout
\* received it and the user's writer nothing.
C16_Witness ==
    \E t \in Threads :
        /\ PastWrite(t) /\ call[t].api = "method" /\ rev = "scan"
        /\ atNew["user"].out = NilWriter
        /\ Len(sink[Stdout]) = 1 /\ sink[Stdout][1].bytes = es[t] \o <<Newline>>
        /\ sink["w"] = <<>>

\* The goroutine's whole stack at the scan's runtime.Callers, innermost first:
\* runtime.Callers, fileNameAndLineNumber, log, the Logger method, and on.
C17_Stack(t) == <<RuntimeCallersFrame, ScanFrame>> \o CallChain(rev, call[t])

\* The positions of the stack the scan captures: past the 4 innermost frames,
\* 25 frames at most.
C17_Captured(t) == 5..Min(Len(C17_Stack(t)), 4 + 25)

\* The frame is the library's: its package name is the one New captured.
C17_InLibrary(t, i) ==
    getPackageName(C17_Stack(t)[i].fn) = logger[CallLogger(call[t])].slogPackageName

C18_Merged(F, P) ==
    [k \in DOMAIN F \cup DOMAIN P |->
        IF k \in DOMAIN P THEN Rendered(P[k]) ELSE Rendered(F[k])]

\* C18: no step of a log call changes the Logger's permanentFields map or the
\* Fields map its caller passed (the arguments of a call change only when the
\* goroutine makes its next call); and whatever other calls are under way, the
\* step that builds a call's event builds it from the call's own fields merged
\* with the permanent fields as New received them, and from nothing else.
C18_MapsUntouched ==
    [][/\ \A l \in Loggers : logger'[l].permanentFields = logger[l].permanentFields
       /\ \A t \in Threads :
             /\ pc[t] # "idle" => call'[t] = call[t]
             /\ (pc[t] = "log" /\ pc'[t] = "print") =>
                   EmittedFields(JsonOf(es'[t])) =
                       C18_Merged(PerCall(t), atNew[CallLogger(call[t])].permanentFields)
      ]_vars

\* Two goroutines are inside calls on the same Logger at once, one with fields
\* and one without, both events built and neither written: the event of the
\* call without fields holds the permanent fields alone, and the Logger's map is
\* as New received it.
C18_Witness ==
    \E t, u \in Threads :
        /\ t # u /\ pc[t] \in {"print", "write"} /\ pc[u] \in {"print", "write"}
        /\ CallLogger(call[t]) = "user" /\ CallLogger(call[u]) = "user"
        /\ call[t].name = "Panicf" /\ call[u].name = "Info"
        /\ DOMAIN PerCall(t) # {} /\ ~(DOMAIN PerCall(t) \subseteq DOMAIN Permanent(t))
        /\ DOMAIN EmittedFields(JsonOf(es[u])) = DOMAIN atNew["user"].permanentFields
        /\ logger["user"].permanentFields = atNew["user"].permanentFields
        /\ call[t].f = ManyFields

\* A Logger constructed anew with the arguments the Logger l was constructed with.
C19_Fresh(l) ==
    IF rev = "fixed"
    THEN NewFixed(atNew[l].callDepth, atNew[l].out, atNew[l].permanentFields)
    ELSE New(atNew[l].out, atNew[l].permanentFields)

\* The event the goroutine's call gives on that Logger.
C19_FreshEvent(t) ==
    LET c == call[t]
        m == CallMethod(c)
        l == C19_Fresh(CallLogger(c))
    IN  JsonOf(IF rev = "fixed"
               THEN logEventFixed(l, MethodLevel(m), MethodFields(m, c.f), c.msg,
                                  CallChain(rev, c), 0)
               ELSE logEvent(l, MethodLevel(m), MethodFields(m, c.f), c.msg,
                             CallChain(rev, c), 0))

\* C19: whatever calls were made on a Logger before (returned, recovered from a
\* panic, their Write failed or not), the step that builds a call's event gives
\* it the level, file, fields and message the same call has on a Logger
\* constructed anew with the same arguments, and the call writes to the same
\* writer; and the Logger stays usable: after every step its mutex is held only
\* by a goroutine whose Write is under way.
C19_IndependentCalls ==
    [][/\ \A t \in Threads :
             (pc[t] = "log" /\ pc'[t] = "print") =>
                 LET e == JsonOf(es'[t])
                     f == C19_FreshEvent(t)
                 IN  /\ e["_metadata"].level = f["_metadata"].level
                     /\ e["_metadata"].file = f["_metadata"].file
                     /\ EmittedFields(e) = EmittedFields(f)
                     /\ e["message"] = f["message"]
                     /\ CallOut(call[t]) = C19_Fresh(CallLogger(call[t])).out
       /\ \A l \in Loggers :
             mu'[l] # 0 => pc'[mu'[l]] = "write" /\ CallLogger(call'[mu'[l]]) = l
      ]_vars

\* The first call on the user's Logger was a Panicf whose Write failed and whose
\* panic was recovered; a goroutine's second call, made on the Logger after it,
\* has written its event and returned.
C19_Witness ==
    \E t \in Threads :
        /\ ncalls[t] = 2 /\ pc[t] = "idle" /\ CallLogger(call[t]) = "user"
        /\ call[t].name = "Info"
        /\ Len(sink["w"]) = 2
        /\ sink["w"][1].res = "err"
        /\ sink["w"][1].bytes[1].json["_metadata"].level = "panic"
        /\ sink["w"][2].bytes = es[t] \o <<Newline>>
        /\ mu["user"] = 0
====
